---- MODULE Spec2Model ----
(***************************************************************************)
(* Contact directory of bot.py: validated fields (Phone, Birthday), Record, *)
(* AddressBook with the upcoming-birthdays query, and the command handlers  *)
(* wrapped by input_error.                                                  *)
(*                                                                          *)
(* Text is modelled as a sequence of one-character strings.  The character  *)
(* "sup2" stands for U+00B2 (SUPERSCRIPT TWO): str.isdigit() is true of it, *)
(* although it is not a decimal digit.                                      *)
(***************************************************************************)
EXTENDS Integers, Sequences, FiniteSets, TLC

VARIABLES book, today, last, stamp

vars == <<book, today, last, stamp>>

(***************************************************************************)
(* Bounds of the model.                                                     *)
(***************************************************************************)
MaxPhones == 2
MaxDays == 7

(***************************************************************************)
(* Characters and text.                                                     *)
(***************************************************************************)
AsciiDigits == {"0", "1", "2", "3", "4", "5", "6", "7", "8", "9"}

\* Characters c with c.isdigit() true: the decimal digits and the other
\* characters of Unicode property Numeric_Type=Digit, such as U+00B2.
IsDigitChar(c) == c \in AsciiDigits \cup {"sup2"}

\* str.isdigit(): every character is a digit and there is at least one.
isdigit(s) == Len(s) > 0 /\ \A i \in 1..Len(s) : IsDigitChar(s[i])

\* The regular expression class \d restricted to the characters of the model.
IsReDigit(c) == c \in AsciiDigits

DigitValue(c) ==
    CASE c = "0" -> 0 [] c = "1" -> 1 [] c = "2" -> 2 [] c = "3" -> 3
      [] c = "4" -> 4 [] c = "5" -> 5 [] c = "6" -> 6 [] c = "7" -> 7
      [] c = "8" -> 8 [] c = "9" -> 9

DigitChar(n) ==
    CASE n = 0 -> "0" [] n = 1 -> "1" [] n = 2 -> "2" [] n = 3 -> "3"
      [] n = 4 -> "4" [] n = 5 -> "5" [] n = 6 -> "6" [] n = 7 -> "7"
      [] n = 8 -> "8" [] n = 9 -> "9"

RECURSIVE IntOf(_)
\* int(s) for a text of decimal digits.
IntOf(s) ==
    IF Len(s) = 0 THEN 0
    ELSE 10 * IntOf(SubSeq(s, 1, Len(s) - 1)) + DigitValue(s[Len(s)])

RECURSIVE Rep(_, _)
\* The text made of n copies of the character c.
Rep(c, n) == IF n = 0 THEN <<>> ELSE <<c>> \o Rep(c, n - 1)

(***************************************************************************)
(* Calendar arithmetic of datetime.date (proleptic Gregorian).              *)
(***************************************************************************)
None == [y |-> 0, m |-> 0, d |-> 0]

MkDate(y, m, d) == [y |-> y, m |-> m, d |-> d]

IsLeap(y) == y % 4 = 0 /\ (y % 100 # 0 \/ y % 400 = 0)

DaysInMonth(y, m) ==
    IF m = 2 THEN (IF IsLeap(y) THEN 29 ELSE 28)
    ELSE IF m \in {4, 6, 9, 11} THEN 30 ELSE 31

\* A (year, month, day) that the date constructor accepts.
IsRealDate(dt) ==
    /\ dt.y \in 1..9999
    /\ dt.m \in 1..12
    /\ dt.d \in 1..DaysInMonth(dt.y, dt.m)

RECURSIVE DaysBeforeMonth(_, _)
DaysBeforeMonth(y, m) ==
    IF m = 1 THEN 0 ELSE DaysBeforeMonth(y, m - 1) + DaysInMonth(y, m - 1)

DaysBeforeYear(y) ==
    (y - 1) * 365 + ((y - 1) \div 4) - ((y - 1) \div 100) + ((y - 1) \div 400)

\* date.toordinal(): 1 for 0001-01-01.
ToOrdinal(dt) == DaysBeforeYear(dt.y) + DaysBeforeMonth(dt.y, dt.m) + dt.d

\* date.weekday(): Monday is 0, Sunday is 6.
Weekday(dt) == (ToOrdinal(dt) + 6) % 7

NextDay(dt) ==
    IF dt.d < DaysInMonth(dt.y, dt.m) THEN MkDate(dt.y, dt.m, dt.d + 1)
    ELSE IF dt.m < 12 THEN MkDate(dt.y, dt.m + 1, 1)
    ELSE MkDate(dt.y + 1, 1, 1)

RECURSIVE AddDays(_, _)
\* dt + timedelta(days = n), for n >= 0.
AddDays(dt, n) == IF n = 0 THEN dt ELSE AddDays(NextDay(dt), n - 1)

\* (a - b).days
DaysBetween(a, b) == ToOrdinal(a) - ToOrdinal(b)

\* a < b on dates.
DateLess(a, b) == ToOrdinal(a) < ToOrdinal(b)

\* date.replace(year = y): raises ValueError when the day does not exist.
ReplaceYearRaises(dt, y) == ~IsRealDate(MkDate(y, dt.m, dt.d))

ReplaceYear(dt, y) == MkDate(y, dt.m, dt.d)

Pad(n, width) ==
    [i \in 1..width |->
        DigitChar((n \div (CASE width - i = 0 -> 1 [] width - i = 1 -> 10
                             [] width - i = 2 -> 100 [] width - i = 3 -> 1000)) % 10)]

\* date.strftime("%d.%m.%Y") for years of four digits.
Strftime(dt) == Pad(dt.d, 2) \o <<".">> \o Pad(dt.m, 2) \o <<".">> \o Pad(dt.y, 4)

(***************************************************************************)
(* datetime.strptime(value, "%d.%m.%Y").date()                              *)
(***************************************************************************)
DotPositions(s) == {i \in 1..Len(s) : s[i] = "."}

\* %d : 3[0-1] | [1-2]\d | 0[1-9] | [1-9] | " "[1-9]
MatchDay(p) ==
    \/ Len(p) = 2 /\ p[1] = "3" /\ p[2] \in {"0", "1"}
    \/ Len(p) = 2 /\ p[1] \in {"1", "2"} /\ IsReDigit(p[2])
    \/ Len(p) = 2 /\ p[1] = "0" /\ IsReDigit(p[2]) /\ p[2] # "0"
    \/ Len(p) = 1 /\ IsReDigit(p[1]) /\ p[1] # "0"
    \/ Len(p) = 2 /\ p[1] = " " /\ IsReDigit(p[2]) /\ p[2] # "0"

\* %m : 1[0-2] | 0[1-9] | [1-9]
MatchMonth(p) ==
    \/ Len(p) = 2 /\ p[1] = "1" /\ p[2] \in {"0", "1", "2"}
    \/ Len(p) = 2 /\ p[1] = "0" /\ IsReDigit(p[2]) /\ p[2] # "0"
    \/ Len(p) = 1 /\ IsReDigit(p[1]) /\ p[1] # "0"

\* %Y : \d\d\d\d
MatchYear(p) == Len(p) = 4 /\ \A i \in 1..4 : IsReDigit(p[i])

StripSpace(p) == IF Len(p) > 0 /\ p[1] = " " THEN Tail(p) ELSE p

\* The date parsed from value, or None when strptime raises ValueError.
Strptime(value) ==
    LET dots == DotPositions(value) IN
    IF Cardinality(dots) # 2 THEN None
    ELSE
      LET p1 == CHOOSE i \in dots : \A j \in dots : i <= j
          p2 == CHOOSE i \in dots : \A j \in dots : j <= i
          dp == SubSeq(value, 1, p1 - 1)
          mp == SubSeq(value, p1 + 1, p2 - 1)
          yp == SubSeq(value, p2 + 1, Len(value))
      IN IF ~(MatchDay(dp) /\ MatchMonth(mp) /\ MatchYear(yp)) THEN None
         ELSE LET dt == MkDate(IntOf(yp), IntOf(mp), IntOf(StripSpace(dp)))
              IN IF IsRealDate(dt) THEN dt ELSE None

(***************************************************************************)
(* Outcome of a call: exc is "" when the call returns, else the exception   *)
(* class; msg is the exception's (or the handler's) message.                *)
(***************************************************************************)
NoText == <<>>

NoMsg == [text |-> "", arg |-> NoText]

Msg(text, arg) == [text |-> text, arg |-> arg]

MsgPhone == Msg("The phone number must contain 10 digits!", NoText)

MsgDate == Msg("Invalid date format. Use DD.MM.YYYY!", NoText)

MsgNotFound(old_phone) == Msg("Phone number {old_phone} not found!", old_phone)

(***************************************************************************)
(* Fields.                                                                  *)
(***************************************************************************)
PhoneLen == 10

\* Phone.__init__ raises ValueError.
PhoneRaises(value) == ~isdigit(value) \/ Len(value) # PhoneLen

\* Birthday.__init__ raises ValueError.
BirthdayRaises(value) == Strptime(value) = None

(***************************************************************************)
(* Record.  A Record is [name, phones, birthday]; a Phone is its value, a   *)
(* Birthday its date, an unset birthday is None.                            *)
(***************************************************************************)
Record(name) == [name |-> name, phones |-> <<>>, birthday |-> None]

Returned(rec) == [exc |-> "", msg |-> NoMsg, rec |-> rec]

Raised(exc, msg, rec) == [exc |-> exc, msg |-> msg, rec |-> rec]

\* edit_phone as it would be with the new value validated after the scan.
edit_phone_late_check(rec, old_phone, new_phone) ==
    LET hits == {i \in 1..Len(rec.phones) : rec.phones[i] = old_phone} IN
    IF hits = {} THEN Raised("ValueError", MsgNotFound(old_phone), rec)
    ELSE LET i == CHOOSE k \in hits : \A j \in hits : k <= j
             changed == [rec EXCEPT !.phones[i] = new_phone]
         IN IF PhoneRaises(new_phone) THEN Raised("ValueError", MsgPhone, changed)
            ELSE Returned(changed)

\* edit_phone as it would be without the return that ends the scan.
edit_phone_every_match(rec, old_phone, new_phone) ==
    IF PhoneRaises(new_phone) THEN Raised("ValueError", MsgPhone, rec)
    ELSE IF \A i \in 1..Len(rec.phones) : rec.phones[i] # old_phone
         THEN Raised("ValueError", MsgNotFound(old_phone), rec)
         ELSE Returned([rec EXCEPT !.phones =
                  [i \in 1..Len(@) |-> IF @[i] = old_phone THEN new_phone ELSE @[i]]])

\* remove_phone as list.remove would do it: the first match only.
remove_phone_first_match(rec, phone) ==
    LET hits == {i \in 1..Len(rec.phones) : rec.phones[i] = phone} IN
    IF hits = {} THEN Returned(rec)
    ELSE LET i == CHOOSE k \in hits : \A j \in hits : k <= j
         IN Returned([rec EXCEPT !.phones =
                SubSeq(@, 1, i - 1) \o SubSeq(@, i + 1, Len(@))])

add_phone(rec, phone) ==
    IF PhoneRaises(phone) THEN Raised("ValueError", MsgPhone, rec)
    ELSE Returned([rec EXCEPT !.phones = Append(@, phone)])

remove_phone(rec, phone) ==
    Returned([rec EXCEPT !.phones = SelectSeq(@, LAMBDA p : p # phone)])

edit_phone(rec, old_phone, new_phone) ==
    IF PhoneRaises(new_phone) THEN Raised("ValueError", MsgPhone, rec)
    ELSE LET hits == {i \in 1..Len(rec.phones) : rec.phones[i] = old_phone} IN
         IF hits = {} THEN Raised("ValueError", MsgNotFound(old_phone), rec)
         ELSE LET i == CHOOSE k \in hits : \A j \in hits : k <= j
              IN Returned([rec EXCEPT !.phones[i] = new_phone])

add_birthday(rec, birthday_contact) ==
    IF BirthdayRaises(birthday_contact) THEN Raised("ValueError", MsgDate, rec)
    ELSE Returned([rec EXCEPT !.birthday = Strptime(birthday_contact)])

(***************************************************************************)
(* AddressBook.  data is the dict as the sequence of its values in          *)
(* insertion order; the key of a Record is its name.                        *)
(***************************************************************************)
Keys(data) == {data[i].name : i \in 1..Len(data)}

KeyIndex(data, name) == CHOOSE i \in 1..Len(data) : data[i].name = name

\* add_record as it would be if it merged into the Record already stored.
add_record_merge(data, record) ==
    IF record.name \in Keys(data)
    THEN [data EXCEPT ![KeyIndex(data, record.name)] =
            [record EXCEPT !.phones =
                IF @ = <<>> THEN data[KeyIndex(data, record.name)].phones ELSE @]]
    ELSE Append(data, record)

\* add_record as it would be if it deleted the key before setting it.
add_record_reinsert(data, record) ==
    Append(SelectSeq(data, LAMBDA r : r.name # record.name), record)

\* self.data[record.name.value] = record: a present key keeps its position.
add_record(data, record) ==
    IF record.name \in Keys(data)
    THEN [data EXCEPT ![KeyIndex(data, record.name)] = record]
    ELSE Append(data, record)

\* self.data.get(name), as a sequence of at most one Record (empty: None).
find(data, name) ==
    IF name \in Keys(data) THEN <<data[KeyIndex(data, name)]>> ELSE <<>>

delete(data, name) ==
    IF name \in Keys(data) THEN SelectSeq(data, LAMBDA r : r.name # name) ELSE data

\* A method of the Record stored under name has changed that object in place.
Mutated(data, rec) == [data EXCEPT ![KeyIndex(data, rec.name)] = rec]

find_next_weekday(start_date, weekday) ==
    LET diff == weekday - Weekday(start_date)
        days_ahead == IF diff <= 0 THEN diff + 7 ELSE diff
    IN AddDays(start_date, days_ahead)

\* adjust_for_weekend as it would be with > 5 for >= 5.
adjust_for_sunday(birthday) ==
    IF Weekday(birthday) > 5 THEN find_next_weekday(birthday, 0) ELSE birthday

adjust_for_weekend(birthday) ==
    IF Weekday(birthday) >= 5 THEN find_next_weekday(birthday, 0) ELSE birthday

\* One iteration of the loop raises ValueError: date.replace on 29 February.
ReplaceRaises(record, now) ==
    /\ record.birthday # None
    /\ \/ ReplaceYearRaises(record.birthday, now.y)
       \/ /\ DateLess(ReplaceYear(record.birthday, now.y), now)
          /\ ReplaceYearRaises(record.birthday, now.y + 1)

\* birthday_this_year after the year adjustment.
birthday_this_year(record, now) ==
    LET this == ReplaceYear(record.birthday, now.y)
    IN IF DateLess(this, now) THEN ReplaceYear(record.birthday, now.y + 1) ELSE this

RECURSIVE UpcomingLoop(_, _, _, _, _)
\* The for loop from record i on, upcoming_birthdays being acc.
UpcomingLoop(data, i, now, days, acc) ==
    IF i > Len(data) THEN [exc |-> "", out |-> acc]
    ELSE LET record == data[i] IN
         IF record.birthday = None THEN UpcomingLoop(data, i + 1, now, days, acc)
         ELSE IF ReplaceRaises(record, now) THEN [exc |-> "ValueError", out |-> <<>>]
         ELSE LET occ == birthday_this_year(record, now)
                  gap == DaysBetween(occ, now)
              IN IF 0 <= gap /\ gap <= days
                 THEN UpcomingLoop(data, i + 1, now, days,
                        Append(acc, [name |-> record.name,
                                     birthday |-> Strftime(adjust_for_weekend(occ))]))
                 ELSE UpcomingLoop(data, i + 1, now, days, acc)

get_upcoming_birthdays(data, now, days) == UpcomingLoop(data, 1, now, days, <<>>)

(***************************************************************************)
(* Inputs.                                                                  *)
(***************************************************************************)
NameA == <<"a">>
NameB == <<"b">>

Phone1 == Rep("1", 10)
PhoneShort == Rep("5", 8)
PhoneAlpha == Rep("5", 9) \o <<"a">>
PhoneSup == Rep("sup2", 10)

Date150690 == <<"1", "5", ".", "0", "6", ".", "1", "9", "9", "0">>
Date310290 == <<"3", "1", ".", "0", "2", ".", "1", "9", "9", "0">>
DateYmd == <<"1", "9", "9", "0", ".", "0", "6", ".", "1", "5">>
Date010190 == <<"0", "1", ".", "0", "1", ".", "1", "9", "9", "0">>
Date040190 == <<"0", "4", ".", "0", "1", ".", "1", "9", "9", "0">>
Date050100 == <<"0", "5", ".", "0", "1", ".", "2", "0", "0", "0">>
Date080185 == <<"0", "8", ".", "0", "1", ".", "1", "9", "8", "5">>
Date290200 == <<"2", "9", ".", "0", "2", ".", "2", "0", "0", "0">>

\* Wednesday 1 January 2025; Friday 27 December 2024; Monday 26 February 2024.
Wed010125 == MkDate(2025, 1, 1)
Fri271224 == MkDate(2024, 12, 27)
Mon260224 == MkDate(2024, 2, 26)

Names == {NameA, NameB}
PhoneInputs == {Phone1, PhoneSup, PhoneShort, PhoneAlpha}
BirthdayInputs == {Date150690, Date310290, DateYmd}
UpcomingInputs == {Date010190, Date040190, Date050100, Date080185, Date290200}
TodayInputs == {Wed010125, Fri271224, Mon260224}
DaysInputs == (0 - 1)..MaxDays

NoLast ==
    [op |-> "", args |-> <<>>, days |-> 0, exc |-> "", msg |-> NoMsg,
     out |-> <<>>, rec |-> <<>>, before |-> <<>>]

\* last records the latest call: its name and arguments, how it ended (exc,
\* msg), what it returned (rec, out) and, in before, the Record stored under
\* the name it addresses as it was when the call began (empty: no Record).

\* A Record as a caller builds it: Record(name), then add_phone and
\* add_birthday with the given texts, a call that raises changing nothing.
RECURSIVE AddPhones(_, _)
AddPhones(rec, phones) ==
    IF phones = <<>> THEN rec
    ELSE AddPhones(add_phone(rec, Head(phones)).rec, Tail(phones))

RECURSIVE AddBirthdays(_, _)
AddBirthdays(rec, birthdays) ==
    IF birthdays = <<>> THEN rec
    ELSE AddBirthdays(add_birthday(rec, Head(birthdays)).rec, Tail(birthdays))

BuildRecord(name, phones, birthdays) ==
    AddBirthdays(AddPhones(Record(name), phones), birthdays)

AtMostOne(S) == {<<>>} \cup {<<x>> : x \in S}

RecordInputs ==
    {BuildRecord(n, ps, bs) :
        n \in Names, ps \in AtMostOne(PhoneInputs), bs \in AtMostOne(BirthdayInputs)}

UpcomingRecordInputs ==
    {BuildRecord(n, <<>>, bs) : n \in Names, bs \in AtMostOne(UpcomingInputs)}

(***************************************************************************)
(* Command handlers.  A handler yields the book it leaves, the exception it *)
(* raises ("" when it returns) and the text it returns.  The texts that     *)
(* render Records are kept as their template and the name asked for.        *)
(***************************************************************************)
DefaultDays == 7

MsgArguments == Msg("Enter the required arguments for the command!", NoText)

MsgNoContact == Msg("Contact not found!", NoText)

HReturn(msg, data) == [exc |-> "", msg |-> msg, data |-> data]

HRaise(exc, data) == [exc |-> exc, msg |-> NoMsg, data |-> data]

input_error(h) ==
    IF h.exc = "ValueError" THEN HReturn(MsgArguments, h.data)
    ELSE IF h.exc = "IndexError" THEN HReturn(MsgArguments, h.data)
    ELSE IF h.exc = "KeyError" THEN HReturn(MsgNoContact, h.data)
    ELSE h

add_contact(args, data) ==
    IF Len(args) # 2 THEN HRaise("ValueError", data)
    ELSE LET name == args[1]
             phone == args[2]
             absent == find(data, name) = <<>>
             data1 == IF absent THEN add_record(data, Record(name)) ELSE data
             message == IF absent THEN Msg("Contact added.", NoText)
                        ELSE Msg("Contact updated.", NoText)
         IN IF Len(phone) = 0 THEN HReturn(message, data1)
            ELSE LET r == add_phone(find(data1, name)[1], phone)
                 IN IF r.exc # "" THEN HReturn(r.msg, data1)
                    ELSE HReturn(message, Mutated(data1, r.rec))

change_contact(args, data) ==
    IF Len(args) # 3 THEN HRaise("ValueError", data)
    ELSE LET record == find(data, args[1]) IN
         IF record = <<>> THEN HRaise("KeyError", data)
         ELSE LET r == edit_phone(record[1], args[2], args[3])
              IN IF r.exc # "" THEN HReturn(r.msg, data)
                 ELSE HReturn(Msg("Contact updated.", NoText), Mutated(data, r.rec))

show_phone(args, data) ==
    IF Len(args) > 1 THEN HRaise("IndexError", data)
    ELSE IF Len(args) = 0 THEN HRaise("IndexError", data)
    ELSE IF find(data, args[1]) = <<>> THEN HRaise("KeyError", data)
    ELSE HReturn(Msg("Contact phone numbers {name} - {contacts}.", args[1]), data)

show_all(args, data) ==
    IF Len(args) > 0 THEN HRaise("IndexError", data)
    ELSE IF data = <<>> THEN HReturn(Msg("No contacts found!", NoText), data)
    ELSE HReturn(Msg("{records}", NoText), data)

add_birthday_handler(args, data) ==
    IF Len(args) # 2 THEN HRaise("ValueError", data)
    ELSE LET record == find(data, args[1]) IN
         IF record = <<>> THEN HRaise("KeyError", data)
         ELSE LET r == add_birthday(record[1], args[2])
              IN IF r.exc # "" THEN HReturn(r.msg, data)
                 ELSE HReturn(Msg("Birthday added.", NoText), Mutated(data, r.rec))

show_birthday(args, data) ==
    IF Len(args) > 1 THEN HRaise("IndexError", data)
    ELSE IF Len(args) = 0 THEN HRaise("IndexError", data)
    ELSE LET record == find(data, args[1]) IN
         IF record = <<>> THEN HRaise("KeyError", data)
         ELSE IF record[1].birthday # None
              THEN HReturn(Msg("Birthday of {name} is {birthday}.", args[1]), data)
              ELSE HReturn(Msg("No birthday recorded for {name}!", args[1]), data)

birthdays(args, data, now) ==
    IF Len(args) > 0 THEN HRaise("IndexError", data)
    ELSE LET records == get_upcoming_birthdays(data, now, DefaultDays) IN
         IF records.exc # "" THEN HRaise(records.exc, data)
         ELSE IF records.out # <<>> THEN HReturn(Msg("{birthdays}", NoText), data)
         ELSE HReturn(Msg("No birthdays for the next 7 days!", NoText), data)

(***************************************************************************)
(* The position of each key in the order of insertion: stamp[n] is 0 when n *)
(* is no key, and otherwise the number of present keys inserted no later    *)
(* than n.  It is kept from the calls alone, never read from the book.      *)
(***************************************************************************)
NoStamp == [n \in Names |-> 0]

Present(st) == {n \in Names : st[n] # 0}

Inserted(st, name) ==
    IF name \notin Names \/ st[name] # 0 THEN st
    ELSE [st EXCEPT ![name] = Cardinality(Present(st)) + 1]

Removed(st, name) ==
    IF name \notin Names \/ st[name] = 0 THEN st
    ELSE [n \in Names |->
            IF n = name THEN 0 ELSE IF st[n] > st[name] THEN st[n] - 1 ELSE st[n]]

(***************************************************************************)
(* The calls of the Record and AddressBook interface.  A Record method is   *)
(* called on the Record that find(name) returns.                            *)
(***************************************************************************)
Init ==
    /\ book = <<>>
    /\ today = Wed010125
    /\ last = NoLast
    /\ stamp = NoStamp

Stored(name) == find(book, name)[1]

RECURSIVE PhoneCount(_)
\* The number of Phone objects the Records of data hold.
PhoneCount(data) ==
    IF data = <<>> THEN 0 ELSE Len(Head(data).phones) + PhoneCount(Tail(data))

CallAddRecord(record) ==
    /\ PhoneCount(add_record(book, record)) <= MaxPhones
    /\ book' = add_record(book, record)
    /\ last' = [NoLast EXCEPT !.op = "add_record", !.args = <<record.name>>,
                              !.rec = <<record>>,
                              !.before = find(book, record.name)]
    /\ stamp' = Inserted(stamp, record.name)
    /\ UNCHANGED today

CallFind(name) ==
    /\ last' = [NoLast EXCEPT !.op = "find", !.args = <<name>>,
                              !.rec = find(book, name)]
    /\ UNCHANGED <<book, today, stamp>>

CallDelete(name) ==
    /\ book' = delete(book, name)
    /\ last' = [NoLast EXCEPT !.op = "delete", !.args = <<name>>,
                              !.before = find(book, name)]
    /\ stamp' = Removed(stamp, name)
    /\ UNCHANGED today

\* A method of the Record stored under name ended as r says.
RecordCall(op, args, r) ==
    /\ book' = Mutated(book, r.rec)
    /\ last' = [NoLast EXCEPT !.op = op, !.args = args, !.exc = r.exc,
                              !.msg = r.msg, !.before = <<Stored(args[1])>>]
    /\ UNCHANGED <<today, stamp>>

CallAddPhone(name, phone) ==
    /\ name \in Keys(book)
    /\ PhoneCount(book) < MaxPhones \/ PhoneRaises(phone)
    /\ RecordCall("add_phone", <<name, phone>>, add_phone(Stored(name), phone))

CallRemovePhone(name, phone) ==
    /\ name \in Keys(book)
    /\ RecordCall("remove_phone", <<name, phone>>, remove_phone(Stored(name), phone))

CallEditPhone(name, old_phone, new_phone) ==
    /\ name \in Keys(book)
    /\ RecordCall("edit_phone", <<name, old_phone, new_phone>>,
                  edit_phone(Stored(name), old_phone, new_phone))

CallAddBirthday(name, birthday) ==
    /\ name \in Keys(book)
    /\ RecordCall("add_birthday", <<name, birthday>>,
                  add_birthday(Stored(name), birthday))

CallGetUpcomingBirthdays(days) ==
    /\ LET r == get_upcoming_birthdays(book, today, days) IN
       last' = [NoLast EXCEPT !.op = "get_upcoming_birthdays", !.days = days,
                              !.exc = r.exc, !.out = r.out]
    /\ UNCHANGED <<book, today, stamp>>

Next ==
    \/ \E record \in RecordInputs : CallAddRecord(record)
    \/ \E name \in Names : CallFind(name)
    \/ \E name \in Names : CallDelete(name)
    \/ \E name \in Names, phone \in PhoneInputs : CallAddPhone(name, phone)
    \/ \E name \in Names, phone \in PhoneInputs : CallRemovePhone(name, phone)
    \/ \E name \in Names, old_phone, new_phone \in PhoneInputs :
          CallEditPhone(name, old_phone, new_phone)
    \/ \E name \in Names, birthday \in BirthdayInputs : CallAddBirthday(name, birthday)

Spec == Init /\ [][Next]_vars

(***************************************************************************)
(* The directory under the birthday query: Records that hold birthdays      *)
(* only, on one of several days.                                            *)
(***************************************************************************)
InitBirthdays ==
    /\ book = <<>>
    /\ today \in TodayInputs
    /\ last = NoLast
    /\ stamp = NoStamp

NextBirthdays ==
    \/ \E record \in UpcomingRecordInputs : CallAddRecord(record)
    \/ \E name \in Names : CallDelete(name)
    \/ \E name \in Names, birthday \in UpcomingInputs \cup {Date310290} :
          CallAddBirthday(name, birthday)
    \/ \E days \in DaysInputs : CallGetUpcomingBirthdays(days)

SpecBirthdays == InitBirthdays /\ [][NextBirthdays]_vars

(***************************************************************************)
(* The command loop of main(): one command per step; last.op is the command *)
(* word.                                                                    *)
(***************************************************************************)
\* Argument lists of a wrong length, and those of the right length.
ArgsOfLength(n) == [1..n -> {NameA}]

WrongArgs(required) == UNION {ArgsOfLength(n) : n \in (0..3) \ {required}}

AddArgs == {<<n, p>> : n \in Names, p \in {Phone1, PhoneShort}}
ChangeArgs ==
    {<<n, o, p>> : n \in Names, o \in {Phone1, PhoneSup}, p \in {PhoneSup, PhoneAlpha}}
NameArgs == {<<n>> : n \in Names}
BirthdayArgs == {<<n, b>> : n \in Names, b \in {Date290200, Date010190, Date310290}}

Command(op, args, h) ==
    /\ book' = h.data
    /\ last' = [NoLast EXCEPT !.op = op, !.args = args, !.exc = h.exc, !.msg = h.msg]
    /\ UNCHANGED today

CmdAdd(args) ==
    /\ Len(args) = 2 => PhoneCount(book) < MaxPhones \/ PhoneRaises(args[2])
    /\ Command("add", args, input_error(add_contact(args, book)))
    /\ stamp' = IF Len(args) = 2 THEN Inserted(stamp, args[1]) ELSE stamp

CmdChange(args) ==
    /\ Command("change", args, input_error(change_contact(args, book)))
    /\ UNCHANGED stamp

CmdPhone(args) ==
    /\ Command("phone", args, input_error(show_phone(args, book)))
    /\ UNCHANGED stamp

CmdAll(args) ==
    /\ Command("all", args, input_error(show_all(args, book)))
    /\ UNCHANGED stamp

CmdAddBirthday(args) ==
    /\ Command("add-birthday", args, input_error(add_birthday_handler(args, book)))
    /\ UNCHANGED stamp

CmdShowBirthday(args) ==
    /\ Command("show-birthday", args, input_error(show_birthday(args, book)))
    /\ UNCHANGED stamp

CmdBirthdays(args) ==
    /\ Command("birthdays", args, input_error(birthdays(args, book, today)))
    /\ UNCHANGED stamp

NextBot ==
    \/ \E args \in AddArgs \cup WrongArgs(2) : CmdAdd(args)
    \/ \E args \in ChangeArgs \cup WrongArgs(3) : CmdChange(args)
    \/ \E args \in NameArgs \cup WrongArgs(1) : CmdPhone(args)
    \/ \E args \in {<<>>} \cup WrongArgs(0) : CmdAll(args)
    \/ \E args \in BirthdayArgs \cup WrongArgs(2) : CmdAddBirthday(args)
    \/ \E args \in NameArgs \cup WrongArgs(1) : CmdShowBirthday(args)
    \/ \E args \in {<<>>} \cup WrongArgs(0) : CmdBirthdays(args)

InitBot ==
    /\ book = <<>>
    /\ today \in {Wed010125, Mon260224}
    /\ last = NoLast
    /\ stamp = NoStamp

SpecBot == InitBot /\ [][NextBot]_vars

(***************************************************************************)
(* Properties.                                                              *)
(***************************************************************************)
Range(seq) == {seq[i] : i \in 1..Len(seq)}

FirstIndex(seq, v) ==
    CHOOSE i \in 1..Len(seq) : seq[i] = v /\ \A j \in 1..(i - 1) : seq[j] # v

\* A text of exactly ten decimal digits.
TenDecimalDigits(value) ==
    Len(value) = 10 /\ \A i \in 1..Len(value) : value[i] \in AsciiDigits

\* C1: every phone stored in every Record of the book has a value of exactly
\* 10 decimal digits, and every birthday is unset or a real calendar date.
StoredFieldsValid ==
    \A i \in 1..Len(book) :
        /\ \A j \in 1..Len(book[i].phones) : TenDecimalDigits(book[i].phones[j])
        /\ book[i].birthday = None \/ IsRealDate(book[i].birthday)

\* C2: a call of add_phone, add_birthday or edit_phone that raises leaves the
\* Record as it was (name, phones in order, birthday); it raises with the
\* format message, or with the not-found message only when edit_phone's old
\* value is absent; and edit_phone with a new value that Phone rejects raises
\* the format error with nothing changed, also when old is a stored phone.
FailedCallLeavesRecord ==
    last.op \in {"add_phone", "add_birthday", "edit_phone"} =>
        LET was == last.before[1]
            now == Stored(last.args[1])
        IN /\ last.exc # "" =>
                /\ now = was
                /\ last.exc = "ValueError"
                /\ \/ last.msg = MsgPhone /\ last.op # "add_birthday"
                   \/ last.msg = MsgDate /\ last.op = "add_birthday"
                   \/ /\ last.op = "edit_phone"
                      /\ last.msg = MsgNotFound(last.args[2])
                      /\ last.args[2] \notin Range(was.phones)
           /\ (last.op = "edit_phone" /\ PhoneRaises(last.args[3])) =>
                last.exc = "ValueError" /\ last.msg = MsgPhone /\ now = was

\* C2 witness: edit_phone raised the format error although old is stored.
EditRejectedOnStoredPhone ==
    /\ last.op = "edit_phone"
    /\ last.exc = "ValueError"
    /\ last.msg = MsgPhone
    /\ last.args[2] \in Range(last.before[1].phones)
    /\ last.before[1].birthday # None

\* C7: a successful edit_phone(old, new) gives the first phone of value old
\* the value new and leaves every other phone, later duplicates of old
\* included, the length of the sequence, the name and the birthday unchanged.
EditChangesFirstMatchOnly ==
    (last.op = "edit_phone" /\ last.exc = "") =>
        LET was == last.before[1]
            now == Stored(last.args[1])
            old == last.args[2]
            new == last.args[3]
        IN /\ old \in Range(was.phones)
           /\ Len(now.phones) = Len(was.phones)
           /\ now.phones[FirstIndex(was.phones, old)] = new
           /\ \A j \in 1..Len(was.phones) :
                 j # FirstIndex(was.phones, old) => now.phones[j] = was.phones[j]
           /\ now.name = was.name
           /\ now.birthday = was.birthday

\* C7 witness: after a successful edit a later duplicate of old is still there.
EditKeptLaterDuplicate ==
    /\ last.op = "edit_phone"
    /\ last.exc = ""
    /\ last.args[2] # last.args[3]
    /\ last.args[2] \in Range(Stored(last.args[1]).phones)

\* C10: remove_phone(v) never raises; the phones left are the previous ones
\* without every phone of value v, in their previous relative order; with no
\* phone of value v nothing changes; name and birthday are unchanged.
RemoveDropsEveryMatch ==
    last.op = "remove_phone" =>
        LET was == last.before[1]
            now == Stored(last.args[1])
            v == last.args[2]
            kept == {i \in 1..Len(was.phones) : was.phones[i] # v}
        IN /\ last.exc = ""
           /\ Len(now.phones) = Cardinality(kept)
           /\ \A i \in kept :
                 now.phones[Cardinality({j \in kept : j <= i})] = was.phones[i]
           /\ v \notin Range(was.phones) => now.phones = was.phones
           /\ now.name = was.name
           /\ now.birthday = was.birthday

\* C10 witness: one remove_phone took two duplicates out.
RemoveTookDuplicates ==
    /\ last.op = "remove_phone"
    /\ Len(last.before[1].phones) >= Len(Stored(last.args[1]).phones) + 2

\* C5: after add_record(r), find(r's name) is a Record with exactly r's phones
\* and birthday, the number of entries has not grown when the name was
\* present, and the entries under other names are unchanged.
AddRecordOverwrites ==
    [][last'.op = "add_record" =>
          LET r == last'.rec[1] IN
          /\ find(book', r.name) = <<r>>
          /\ r.name \in Keys(book) => Len(book') = Len(book)
          /\ r.name \notin Keys(book) => Len(book') = Len(book) + 1
          /\ \A n \in Names \ {r.name} : find(book', n) = find(book, n)
          /\ Cardinality(Keys(book')) = Len(book')]_vars

\* C5 witness: a Record with a phone and a birthday was overwritten by one
\* that has neither, next to an entry under another name.
OverwroteFullerRecord ==
    /\ last.op = "add_record"
    /\ last.before # <<>>
    /\ last.before[1].phones # <<>>
    /\ last.before[1].birthday # None
    /\ Stored(last.args[1]).phones = <<>>
    /\ Stored(last.args[1]).birthday = None
    /\ Len(book) = 2

(***************************************************************************)
(* The upcoming-birthdays query.                                            *)
(***************************************************************************)
\* The next occurrence of a birthday: this year's month and day when that is
\* not before today, else next year's.
NextOccurrence(birthday, now) ==
    IF ToOrdinal(MkDate(now.y, birthday.m, birthday.d)) >= ToOrdinal(now)
    THEN MkDate(now.y, birthday.m, birthday.d)
    ELSE MkDate(now.y + 1, birthday.m, birthday.d)

Reported == {last.out[i].name : i \in 1..Len(last.out)}

LeapDay(birthday) == birthday.m = 2 /\ birthday.d = 29

\* C3: get_upcoming_birthdays(days) includes a record if and only if its
\* birthday is set and its next occurrence lies in [today, today + days]
\* (stated for the birthdays that occur in every year).
UpcomingIffInWindow ==
    last.op = "get_upcoming_birthdays" =>
        \A i \in 1..Len(book) :
            LET birthday == book[i].birthday IN
            ~LeapDay(birthday) =>
                (book[i].name \in Reported <=>
                    /\ birthday # None
                    /\ DaysBetween(NextOccurrence(birthday, today), today)
                          \in 0..last.days)

\* The reported date for an occurrence: the Monday after a weekend day.
ShiftedDate(occ) ==
    IF Weekday(occ) = 5 THEN AddDays(occ, 2)
    ELSE IF Weekday(occ) = 6 THEN AddDays(occ, 1)
    ELSE occ

\* C4: every entry reports the occurrence when that is a weekday, the
\* occurrence + 2 days for a Saturday and + 1 day for a Sunday; the reported
\* date is no Saturday or Sunday and lies in [today, today + days + 2].
ReportedDateShifted ==
    last.op = "get_upcoming_birthdays" =>
        \A i \in 1..Len(last.out) :
            LET entry == last.out[i]
                occ == NextOccurrence(Stored(entry.name).birthday, today)
                date == Strptime(entry.birthday)
            IN /\ entry.birthday = Strftime(ShiftedDate(occ))
               /\ date # None
               /\ Weekday(date) \notin {5, 6}
               /\ DaysBetween(date, today) \in 0..(last.days + 2)

\* C4 witness: a Saturday and a Sunday birthday are both reported for the
\* Monday, which lies past the window.
ReportedPastWindow ==
    /\ last.op = "get_upcoming_birthdays"
    /\ Len(last.out) = 2
    /\ \A i \in 1..2 :
          /\ Weekday(NextOccurrence(Stored(last.out[i].name).birthday, today)) >= 5
          /\ DaysBetween(Strptime(last.out[i].birthday), today) > last.days
    /\ Stored(last.out[1].name).birthday # Stored(last.out[2].name).birthday

\* C6: the entries of get_upcoming_birthdays come in the order in which
\* their names were inserted as keys: a precedes b exactly when a's key was
\* inserted before b's.
ReportedInInsertionOrder ==
    last.op = "get_upcoming_birthdays" =>
        \A i, j \in 1..Len(last.out) :
            i < j <=> stamp[last.out[i].name] < stamp[last.out[j].name]

\* C6 witness: two entries of which the first, under the key inserted first,
\* carries the later date.
ReportedAgainstCalendar ==
    /\ last.op = "get_upcoming_birthdays"
    /\ Len(last.out) = 2
    /\ DateLess(Strptime(last.out[2].birthday), Strptime(last.out[1].birthday))
    /\ last.out[1].name = NameB

(***************************************************************************)
(* The command handlers.                                                    *)
(***************************************************************************)
Required(op) ==
    CASE op = "add" -> 2 [] op = "change" -> 3 [] op = "phone" -> 1
      [] op = "all" -> 0 [] op = "add-birthday" -> 2 [] op = "show-birthday" -> 1
      [] op = "birthdays" -> 0

Commands ==
    {"add", "change", "phone", "all", "add-birthday", "show-birthday", "birthdays"}

\* C8: a handler (add, change, add-birthday) called with the right number of
\* arguments that reports a validation failure leaves the book as it was:
\* the same names, and the same phones and birthday in every Record.
RejectedCommandLeavesBook ==
    [][(/\ last'.op \in {"add", "change", "add-birthday"}
        /\ Len(last'.args) = Required(last'.op)
        /\ last'.msg \in {MsgPhone, MsgDate})
          => book' = book]_vars

\* C9: a handler answers "Enter the required arguments for the command!" if
\* and only if it was called with a number of arguments other than the
\* number its command requires.
ArgumentsMessageIffWrongCount ==
    last.op \in Commands =>
        (last.msg = MsgArguments <=> Len(last.args) # Required(last.op))

====
